---- MODULE Spec2Model ----
(***************************************************************************)
(* The shared HTTP client of src/utils/axiosInstance.ts: one axios         *)
(* instance with default configuration, a request interceptor that         *)
(* injects the bearer token read from localStorage, and a response         *)
(* interceptor that logs failures and re-signals them.                     *)
(*                                                                         *)
(* A call is axios's promise chain                                         *)
(*   Promise.resolve(config)                                               *)
(*     .then(requestFulfilled, requestRejected)                            *)
(*     .then(dispatchRequest, undefined)                                   *)
(*     .then(responseFulfilled, responseRejected)                          *)
(* Each stage is one action.  Two logical tasks (Callers) issue calls and  *)
(* suspend until their call settles; their chains interleave stage by      *)
(* stage, and an external authentication flow rewrites the stored token    *)
(* in between.  An optional value (a JavaScript undefined / null) is the   *)
(* empty sequence <<>>, a present value v is <<v>>.                        *)
(***************************************************************************)
EXTENDS Integers, Sequences, FiniteSets

VARIABLES
    defaults,   \* api.defaults: the configuration captured by axios.create
    storage,    \* window.localStorage: accessible or not, and the 'authToken' entry
    pc,         \* per caller: the stage of its call's promise chain
    config,     \* per caller: the request config object flowing through the chain
    chain,      \* per caller: state of the promise entering the next stage
    response,   \* per caller: the value a fulfilled chain carries after dispatch
    error,      \* per caller: the reason a rejected chain carries
    origin,     \* per caller: the response / error object as first produced
    wire,       \* per caller: the request configs handed to the transport
    elapsed,    \* per caller: milliseconds since the transport sent the request
    result,     \* per caller: what the awaiting caller receives
    log,        \* per caller: the console.error calls made for its call, in order
    issued,     \* number of calls made so far
    args,       \* per caller: the request its current call was made with
    location,   \* window.location.href
    env,        \* import.meta.env.VITE_API_BASE_URL
    second,     \* a second instance built by the same axios.create call, if any
    rootState,  \* store.getState(): the Redux root state
    dispatched, \* the actions dispatched to the store, in order
    document,   \* ids of the elements of index.html
    startup,    \* main.tsx: not yet evaluated, rendered, or threw
    roots,      \* the containers ReactDOM.createRoot was called with
    rendered,   \* the trees root.render was called with
    thrown,     \* the message of the error start-up threw, if any
    props,      \* the props of the latest Button render
    element     \* the element the latest Button render returned, if any

\* The HTTP client, the application shell (entry point and store), the Button.
clientVars == <<defaults, storage, pc, config, chain, response, error, origin, wire,
                elapsed, result, log, issued, args, location, env, second>>

appVars == <<rootState, dispatched, document, startup, roots, rendered, thrown>>

buttonVars == <<props, element>>

vars == <<clientVars, appVars, buttonVars>>

----------------------------------------------------------------------------
(* Bounds of the model *)

\* Total number of calls issued in one run.
MaxCalls == 2

\* Number of clock ticks the default timeout lasts.
TicksPerTimeout == 1

----------------------------------------------------------------------------
(* Values *)

None == <<>>
Some(v) == <<v>>
IsSome(o) == o # <<>>
Get(o) == o[1]

\* The two logical tasks that use the shared client concurrently.
Callers == {"A", "B"}

\* timeout: 10000 in axios.create
DefaultTimeout == 10000

\* Milliseconds per tick of the transport clock.
TickMs == DefaultTimeout \div TicksPerTimeout

\* A per-call timeout override a caller may pass as a request option.
ShortTimeout == DefaultTimeout \div 2

HeaderNames == {"Content-Type", "Authorization", "X-Request-Id"}

NoHeaders == [h \in HeaderNames |-> None]

\* headers: { 'Content-Type': 'application/json' } in axios.create
DefaultHeaders == [NoHeaders EXCEPT !["Content-Type"] = Some("application/json")]

\* import.meta.env.VITE_API_BASE_URL: a string or undefined
EnvBaseURLs == {None, Some("http://localhost:3000/api")}

\* localStorage.getItem('authToken'): null, or the stored string
Tokens == {None, Some(""), Some("abc123"), Some("xyz789")}

StorageStates == [accessible : {TRUE}, authToken : Tokens]
                     \cup {[accessible |-> FALSE, authToken |-> None]}

\* HTTP statuses the server may answer with.
Statuses == {200, 401, 404, 500}

\* The decimal digits, for converting numbers to text.
DigitChars == <<"0", "1", "2", "3", "4", "5", "6", "7", "8", "9">>

RECURSIVE NumberToString(_)
\* String(n) / template-literal interpolation of a non-negative integer.
NumberToString(n) ==
    IF n < 10 THEN DigitChars[n + 1]
    ELSE NumberToString(n \div 10) \o DigitChars[(n % 10) + 1]

\* What callers pass to api.request: method, url, body, headers and options.
BaseRequest ==
    [method |-> "GET", url |-> "/health", data |-> None, params |-> None,
     headers |-> None, timeout |-> None, baseURL |-> None]

Requests ==
    { BaseRequest,
      [BaseRequest EXCEPT !.method = "POST", !.url = "/orders", !.data = Some("{id:1}"),
                          !.headers = Some([NoHeaders EXCEPT !["Content-Type"] = Some("text/plain"),
                                                             !["X-Request-Id"] = Some("r1")])],
      [BaseRequest EXCEPT !.params = Some("page=1"),
                          !.headers = Some([NoHeaders EXCEPT !["Authorization"] = Some("Basic caller")]),
                          !.timeout = Some(ShortTimeout),
                          !.baseURL = Some("https://other.example/api")] }

NoConfig ==
    [method |-> "", url |-> "", data |-> None, params |-> None, headers |-> None,
     ownHeaders |-> TRUE, timeout |-> None, baseURL |-> None]

NoResponse == [present |-> FALSE, status |-> 0, data |-> ""]

NoError == [present |-> FALSE, name |-> "", message |-> "", response |-> NoResponse,
            request |-> None]

MkError(name, message, resp, req) ==
    [present |-> TRUE, name |-> name, message |-> message, response |-> resp,
     request |-> req]

Pending == [state |-> "pending", response |-> NoResponse, error |-> NoError]

----------------------------------------------------------------------------
(* axios.create and the per-call merge of defaults and request options *)

\* Variant: the instance is created with the 30 second timeout of the constants module.
Create_ApiTimeout(envBaseURL) ==
    [baseURL |-> envBaseURL, headers |-> DefaultHeaders, timeout |-> 30000]

\* Variant: construction reads a module-level counter of the calls made so far.
Create_Counter(envBaseURL) ==
    [baseURL |-> envBaseURL, headers |-> DefaultHeaders,
     timeout |-> DefaultTimeout + issued]

\* axios.create({ baseURL, headers, timeout })
Create(envBaseURL) ==
    [baseURL |-> envBaseURL, headers |-> DefaultHeaders, timeout |-> DefaultTimeout]

\* Variant: a caller's headers replace the defaults instead of overlaying them.
MergeHeaders_CallerOnly(dflt, own) ==
    IF IsSome(own) THEN Get(own) ELSE dflt

\* The headers of a call: the instance defaults overlaid by the caller's own.
MergeHeaders(dflt, own) ==
    IF IsSome(own)
    THEN [h \in HeaderNames |-> IF IsSome(Get(own)[h]) THEN Get(own)[h] ELSE dflt[h]]
    ELSE dflt

\* Variant: without caller headers the defaults' own header object is handed on.
MergeConfig_SharesHeaders(dflt, req) ==
    [method  |-> req.method,
     url     |-> req.url,
     data    |-> req.data,
     params  |-> req.params,
     headers |-> Some(MergeHeaders(dflt.headers, req.headers)),
     ownHeaders |-> IsSome(req.headers),
     timeout |-> IF IsSome(req.timeout) THEN req.timeout ELSE Some(dflt.timeout),
     baseURL |-> IF IsSome(req.baseURL) THEN req.baseURL ELSE dflt.baseURL]

\* The config a call starts its chain with: request options override defaults,
\* and the headers object always exists because the defaults have one.  The
\* headers are a fresh object of the call (ownHeaders), not the defaults' own.
MergeConfig(dflt, req) ==
    [method  |-> req.method,
     url     |-> req.url,
     data    |-> req.data,
     params  |-> req.params,
     headers |-> Some(MergeHeaders(dflt.headers, req.headers)),
     ownHeaders |-> TRUE,
     timeout |-> IF IsSome(req.timeout) THEN req.timeout ELSE Some(dflt.timeout),
     baseURL |-> IF IsSome(req.baseURL) THEN req.baseURL ELSE dflt.baseURL]

----------------------------------------------------------------------------
(* The interceptors *)

\* JavaScript truthiness of localStorage.getItem's result: null and '' are falsy.
Truthy(token) == IsSome(token) /\ Get(token) # ""

\* `Bearer ${token}`
Bearer(token) == "Bearer " \o token

\* What accessing localStorage throws when the browser denies storage access.
StorageError == MkError("SecurityError", "The operation is insecure.", NoResponse, None)

\* Variant: the header is set to the bare token.
RequestFulfilled_RawToken(cfg, store) ==
    IF ~store.accessible
    THEN [threw |-> TRUE, config |-> cfg, error |-> StorageError]
    ELSE LET token == store.authToken IN
         [threw  |-> FALSE,
          config |-> IF Truthy(token) /\ IsSome(cfg.headers)
                     THEN [cfg EXCEPT !.headers =
                              Some([Get(cfg.headers) EXCEPT !["Authorization"] = token])]
                     ELSE cfg,
          error  |-> NoError]

\* Variant: the header is set without testing the token, so null is interpolated.
RequestFulfilled_NoTokenCheck(cfg, store) ==
    IF ~store.accessible
    THEN [threw |-> TRUE, config |-> cfg, error |-> StorageError]
    ELSE LET token == store.authToken IN
         [threw  |-> FALSE,
          config |-> IF IsSome(cfg.headers)
                     THEN [cfg EXCEPT !.headers =
                              Some([Get(cfg.headers) EXCEPT !["Authorization"] =
                                       Some(Bearer(IF IsSome(token) THEN Get(token) ELSE "null"))])]
                     ELSE cfg,
          error  |-> NoError]

\* Variant: the token was read once when the module loaded and is reused.
RequestFulfilled_CachedToken(cfg, store) ==
    IF ~store.accessible
    THEN [threw |-> TRUE, config |-> cfg, error |-> StorageError]
    ELSE LET token == Some("abc123") IN
         [threw  |-> FALSE,
          config |-> IF Truthy(token) /\ IsSome(cfg.headers)
                     THEN [cfg EXCEPT !.headers =
                              Some([Get(cfg.headers) EXCEPT !["Authorization"] =
                                       Some(Bearer(Get(token)))])]
                     ELSE cfg,
          error  |-> NoError]

\* Variant: the header map is replaced by one holding only the credential.
RequestFulfilled_ReplacesHeaders(cfg, store) ==
    IF ~store.accessible
    THEN [threw |-> TRUE, config |-> cfg, error |-> StorageError]
    ELSE LET token == store.authToken IN
         [threw  |-> FALSE,
          config |-> IF Truthy(token) /\ IsSome(cfg.headers)
                     THEN [cfg EXCEPT !.headers =
                              Some([NoHeaders EXCEPT !["Authorization"] =
                                       Some(Bearer(Get(token)))])]
                     ELSE cfg,
          error  |-> NoError]

\* Variant: the token is tested against null only, so '' passes the test.
RequestFulfilled_NullCheck(cfg, store) ==
    IF ~store.accessible
    THEN [threw |-> TRUE, config |-> cfg, error |-> StorageError]
    ELSE LET token == store.authToken IN
         [threw  |-> FALSE,
          config |-> IF IsSome(token) /\ IsSome(cfg.headers)
                     THEN [cfg EXCEPT !.headers =
                              Some([Get(cfg.headers) EXCEPT !["Authorization"] =
                                       Some(Bearer(Get(token)))])]
                     ELSE cfg,
          error  |-> NoError]

\* Request interceptor, fulfilled handler: returns the config, or throws.
RequestFulfilled(cfg, store) ==
    IF ~store.accessible
    THEN [threw |-> TRUE, config |-> cfg, error |-> StorageError]
    ELSE LET token == store.authToken IN
         [threw  |-> FALSE,
          config |-> IF Truthy(token) /\ IsSome(cfg.headers)
                     THEN [cfg EXCEPT !.headers =
                              Some([Get(cfg.headers) EXCEPT !["Authorization"] =
                                       Some(Bearer(Get(token)))])]
                     ELSE cfg,
          error  |-> NoError]

\* Variant: the handler logs and returns nothing, which resolves the chain.
RequestRejected_Swallows(err) ==
    [logs |-> << <<"Request error:", err.message>> >>, state |-> "fulfilled", error |-> NoError]

\* Request interceptor, rejected handler: console.error, then Promise.reject(error).
RequestRejected(err) ==
    [logs |-> << <<"Request error:", err.message>> >>, state |-> "rejected", error |-> err]

\* Variant: the handler unwraps the response, dropping its status.
ResponseFulfilled_Unwraps(resp) == [resp EXCEPT !.status = 0]

\* Response interceptor, fulfilled handler.
ResponseFulfilled(resp) == resp

\* Variant: error.request is tested before error.response.
Branch_RequestFirst(err) ==
    IF IsSome(err.request) THEN "network"
    ELSE IF err.response.present THEN "server"
    ELSE "setup"

\* Variant: error.request is not tested at all.
Branch_NoRequestCheck(err) ==
    IF err.response.present THEN "server" ELSE "setup"

\* The branch of the response-error handler an error takes.
Branch(err) ==
    IF err.response.present THEN "server"
    ELSE IF IsSome(err.request) THEN "network"
    ELSE "setup"

\* Variant: the switch has no case for 500.
StatusDiagnostic_No500(resp) ==
    CASE resp.status = 401 -> <<"Unauthorized! Redirecting to login...">>
      [] OTHER -> <<"Error " \o NumberToString(resp.status) \o ":", resp.data>>

\* The switch over error.response.status.
StatusDiagnostic(resp) ==
    CASE resp.status = 401 -> <<"Unauthorized! Redirecting to login...">>
      [] resp.status = 500 -> <<"Server error! Please try again later.">>
      [] OTHER -> <<"Error " \o NumberToString(resp.status) \o ":", resp.data>>

\* (the en dash of the source text is written as a hyphen)
NetworkDiagnostic == <<"No response received - check your network connection.">>

SetupDiagnostic(err) == <<"Axios setup error:", err.message>>

\* Variant: the handler logs and returns nothing, which resolves the caller's promise.
ResponseRejected_Swallows(err) ==
    [logs  |-> << CASE Branch(err) = "server"  -> StatusDiagnostic(err.response)
                    [] Branch(err) = "network" -> NetworkDiagnostic
                    [] OTHER                   -> SetupDiagnostic(err) >>,
     state |-> "fulfilled",
     redirect |-> None,
     error |-> NoError]

\* Variant: the handler re-issues the request when no response arrived.
ResponseRejected_Retries(err) ==
    [logs  |-> << CASE Branch(err) = "server"  -> StatusDiagnostic(err.response)
                    [] Branch(err) = "network" -> NetworkDiagnostic
                    [] OTHER                   -> SetupDiagnostic(err) >>,
     state |-> IF Branch(err) = "network" THEN "retry" ELSE "rejected",
     redirect |-> None,
     error |-> err]

\* Variant: the redirect to the login page on 401 is enabled.
ResponseRejected_Redirects(err) ==
    [logs  |-> << CASE Branch(err) = "server"  -> StatusDiagnostic(err.response)
                    [] Branch(err) = "network" -> NetworkDiagnostic
                    [] OTHER                   -> SetupDiagnostic(err) >>,
     state |-> "rejected",
     redirect |-> IF Branch(err) = "server" /\ err.response.status = 401
                  THEN Some("/login") ELSE None,
     error |-> err]

\* Variant: the final else branch re-signals without logging.
ResponseRejected_SilentSetup(err) ==
    [logs  |-> CASE Branch(err) = "server"  -> << StatusDiagnostic(err.response) >>
                 [] Branch(err) = "network" -> << NetworkDiagnostic >>
                 [] OTHER                   -> << >>,
     state |-> "rejected",
     redirect |-> None,
     error |-> err]

\* Variant: the handler reads the stored token again and adds it to its diagnostic.
ResponseRejected_LogsToken(err) ==
    [logs  |-> << (CASE Branch(err) = "server"  -> StatusDiagnostic(err.response)
                     [] Branch(err) = "network" -> NetworkDiagnostic
                     [] OTHER                   -> SetupDiagnostic(err))
                  \o (IF Truthy(storage.authToken) THEN <<Get(storage.authToken)>> ELSE <<>>) >>,
     state |-> "rejected",
     redirect |-> None,
     error |-> err]

\* Response interceptor, rejected handler: one console.error, then Promise.reject(error).
ResponseRejected(err) ==
    [logs  |-> << CASE Branch(err) = "server"  -> StatusDiagnostic(err.response)
                    [] Branch(err) = "network" -> NetworkDiagnostic
                    [] OTHER                   -> SetupDiagnostic(err) >>,
     state |-> "rejected",
     redirect |-> None,
     error |-> err]

----------------------------------------------------------------------------
(* The transport (axios's dispatchRequest and XHR adapter) *)

\* The error an earlier stage of the request chain rejects with.
PreSendError == MkError("AxiosError", "Invalid request configuration", NoResponse, None)

\* The error dispatchRequest throws when it cannot build the request.
AdapterError == MkError("AxiosError", "Unsupported protocol", NoResponse, None)

ResponseData(status) == "body " \o NumberToString(status)

ServerResponse(status) ==
    [present |-> TRUE, status |-> status, data |-> ResponseData(status)]

\* validateStatus: 2xx resolves, everything else rejects.
ValidStatus(status) == status >= 200 /\ status < 300

StatusError(resp) ==
    MkError("AxiosError", "Request failed with status code " \o NumberToString(resp.status),
            resp, Some("XMLHttpRequest"))

NetworkError == MkError("AxiosError", "Network Error", NoResponse, Some("XMLHttpRequest"))

TimeoutError(cfg) ==
    MkError("AxiosError", "timeout of " \o NumberToString(Get(cfg.timeout)) \o "ms exceeded",
            NoResponse, Some("XMLHttpRequest"))

----------------------------------------------------------------------------
(* The constants module *)

\* export const API_BASE_URL = import.meta.env.VITE_API_BASE_URL || 'http://localhost:3000/api'
API_BASE_URL == IF Truthy(env) THEN Get(env) ELSE "http://localhost:3000/api"

\* export const API_TIMEOUT = 30000
API_TIMEOUT == 30000

----------------------------------------------------------------------------
(* The store: configureStore({ reducer: { counter: counterReducer } }) *)

\* Largest number of actions dispatched to the store in one run.
MaxDispatches == 3

\* Payloads given to incrementByAmount.
Amounts == {-2, 0, 3}

\* const initialState: CounterState = { value: 0 }
initialState == [value |-> 0]

\* The action creators of the slice: createSlice names a type 'counter/<reducer>'.
increment == [type |-> "counter/increment", payload |-> None]
decrement == [type |-> "counter/decrement", payload |-> None]
incrementByAmount(a) == [type |-> "counter/incrementByAmount", payload |-> Some(a)]

\* Variant: decrement adds one like increment.
counterReducer_DecrementAdds(state, action) ==
    IF action.type = "counter/increment" THEN [state EXCEPT !.value = @ + 1]
    ELSE IF action.type = "counter/decrement" THEN [state EXCEPT !.value = @ + 1]
    ELSE IF action.type = "counter/incrementByAmount"
         THEN [state EXCEPT !.value = @ + Get(action.payload)]
    ELSE state

\* The case reducers of counterSlice; any other action leaves the state as it is.
counterReducer(state, action) ==
    IF action.type = "counter/increment" THEN [state EXCEPT !.value = @ + 1]
    ELSE IF action.type = "counter/decrement" THEN [state EXCEPT !.value = @ - 1]
    ELSE IF action.type = "counter/incrementByAmount"
         THEN [state EXCEPT !.value = @ + Get(action.payload)]
    ELSE state

\* reducer: { counter: counterReducer }
rootReducer(state, action) == [counter |-> counterReducer(state.counter, action)]

\* export const selectCount = (state: RootState) => state.counter.value
selectCount(state) == state.counter.value

----------------------------------------------------------------------------
(* main.tsx: the entry point *)

\* What index.html may contain: any of these element ids.
ElementIds == {"root", "app"}

Documents == SUBSET ElementIds

\* document.getElementById(id): the element, or null
getElementById(doc, id) == IF id \in doc THEN Some(id) ELSE None

RootMissing ==
    "Failed to find the root element. Please ensure there is an element with id='root' in your index.html."

\* <React.StrictMode><Provider store={store}><App /></Provider></React.StrictMode>
AppTree == [strictMode |-> TRUE, provider |-> "store", child |-> "App"]

----------------------------------------------------------------------------
(* Button: the two copies of the component *)

\* The class names the SCSS module exports.
styles == [button |-> "button", buttonSecondary |-> "buttonSecondary"]

\* Values given to the variant prop: absent, the two declared ones, and one a
\* JavaScript caller can pass although the type forbids it.
Variants == {None, Some("primary"), Some("secondary"), Some("danger")}

\* A className is modelled by its list of class tokens.
ClassNames == {None, Some(<<"wide">>)}

\* The props a Button is rendered with: children, variant, and attributes that
\* are passed through to the button element.
AllProps ==
    [children : {"Click Me", "Secondary"}, variant : Variants, className : ClassNames,
     ariaLabel : {None, Some("custom-button")}, disabled : {None, Some(TRUE)}]

NoProps ==
    [children |-> "", variant |-> None, className |-> None, ariaLabel |-> None,
     disabled |-> None]

\* Variant: the two style classes are swapped.
buttonClass_Swapped(variant) ==
    IF variant = "secondary" THEN styles.button ELSE styles.buttonSecondary

\* const buttonClass = variant === 'secondary' ? styles.buttonSecondary : styles.button
buttonClass(variant) ==
    IF variant = "secondary" THEN styles.buttonSecondary ELSE styles.button

\* variant = 'primary' in the parameter list: the default of an absent variant
VariantOrDefault(p) == IF IsSome(p.variant) THEN Get(p.variant) ELSE "primary"

\* <button className={buttonClass} {...props}>: an attribute given in props
\* replaces the one written before the spread.
Attributes(class, p) ==
    [className |-> IF IsSome(p.className) THEN p.className ELSE Some(<<class>>),
     ariaLabel |-> p.ariaLabel,
     disabled |-> p.disabled]

\* src/components/Button/Button.tsx
Button(p) ==
    [tag |-> "button",
     attributes |-> Attributes(buttonClass(VariantOrDefault(p)), p),
     children |-> <<p.children>>]

\* The copy of the component that pads its children with spaces.
CommonButton(p) ==
    [tag |-> "button",
     attributes |-> Attributes(buttonClass(VariantOrDefault(p)), p),
     children |-> <<" ", p.children, " ">>]

----------------------------------------------------------------------------
(* State machine *)

\* The client module as evaluated: the instance is built, no call has been made.
InitClient ==
    /\ env \in EnvBaseURLs
    /\ issued = 0
    /\ defaults = Create(env)
    /\ second = None
    /\ location = "/"
    /\ args = [c \in Callers |-> BaseRequest]
    /\ storage \in StorageStates
    /\ pc = [c \in Callers |-> "idle"]
    /\ config = [c \in Callers |-> NoConfig]
    /\ chain = [c \in Callers |-> "fulfilled"]
    /\ response = [c \in Callers |-> NoResponse]
    /\ error = [c \in Callers |-> NoError]
    /\ origin = [c \in Callers |-> Pending]
    /\ wire = [c \in Callers |-> <<>>]
    /\ elapsed = [c \in Callers |-> 0]
    /\ result = [c \in Callers |-> Pending]
    /\ log = [c \in Callers |-> <<>>]

\* The store as configureStore leaves it: every slice in its initial state.
InitStore ==
    /\ rootState = [counter |-> initialState]
    /\ dispatched = <<>>

\* The entry point has not been evaluated.
InitMain ==
    /\ startup = "pending"
    /\ roots = <<>>
    /\ rendered = <<>>
    /\ thrown = None

\* No Button has been rendered.
InitButton ==
    /\ props = NoProps
    /\ element = None

\* The client in the application as shipped: index.html has the root element.
Init ==
    /\ InitClient
    /\ InitStore
    /\ InitMain
    /\ document = {"root"}
    /\ InitButton

\* api.request(req): the caller starts a chain on the merged config.  The chain
\* enters the request interceptor fulfilled, or rejected when a stage that runs
\* before it has failed.
Call(c, req, failed) ==
    /\ pc[c] \in {"idle", "settled"}
    /\ issued < MaxCalls
    /\ issued' = issued + 1
    /\ pc' = [pc EXCEPT ![c] = "request"]
    /\ config' = [config EXCEPT ![c] = MergeConfig(defaults, req)]
    /\ chain' = [chain EXCEPT ![c] = IF failed THEN "rejected" ELSE "fulfilled"]
    /\ error' = [error EXCEPT ![c] = IF failed THEN PreSendError ELSE NoError]
    /\ origin' = [origin EXCEPT ![c] =
                     IF failed THEN [Pending EXCEPT !.state = "rejected", !.error = PreSendError]
                     ELSE Pending]
    /\ response' = [response EXCEPT ![c] = NoResponse]
    /\ wire' = [wire EXCEPT ![c] = <<>>]
    /\ elapsed' = [elapsed EXCEPT ![c] = 0]
    /\ result' = [result EXCEPT ![c] = Pending]
    /\ log' = [log EXCEPT ![c] = <<>>]
    /\ args' = [args EXCEPT ![c] = req]
    /\ UNCHANGED <<defaults, storage, location, env, second,
                   appVars, buttonVars>>

\* The request interceptor's fulfilled handler runs on the call's config.
RequestStage(c) ==
    /\ pc[c] = "request"
    /\ chain[c] = "fulfilled"
    /\ LET out == RequestFulfilled(config[c], storage) IN
       /\ config' = [config EXCEPT ![c] = out.config]
       /\ chain' = [chain EXCEPT ![c] = IF out.threw THEN "rejected" ELSE "fulfilled"]
       /\ error' = [error EXCEPT ![c] = out.error]
       /\ origin' = [origin EXCEPT ![c] =
                        IF out.threw
                        THEN [Pending EXCEPT !.state = "rejected", !.error = out.error]
                        ELSE Pending]
       \* a rejection has no handler at the dispatch stage and falls through it
       /\ pc' = [pc EXCEPT ![c] = IF out.threw THEN "response" ELSE "dispatch"]
       \* config.headers.Authorization = ... writes into whatever object headers is
       /\ defaults' = IF ~config[c].ownHeaders /\ ~out.threw
                      THEN [defaults EXCEPT !.headers = Get(out.config.headers)]
                      ELSE defaults
    /\ UNCHANGED <<storage, response, wire, elapsed, result, log, issued,
                   args, location, env, second,
                   appVars, buttonVars>>

\* The request interceptor's rejected handler runs on an earlier stage's error.
RequestErrorStage(c) ==
    /\ pc[c] = "request"
    /\ chain[c] = "rejected"
    /\ LET out == RequestRejected(error[c]) IN
       /\ log' = [log EXCEPT ![c] = log[c] \o out.logs]
       /\ chain' = [chain EXCEPT ![c] = out.state]
       /\ error' = [error EXCEPT ![c] = out.error]
       /\ pc' = [pc EXCEPT ![c] = IF out.state = "rejected" THEN "response" ELSE "dispatch"]
    /\ UNCHANGED <<defaults, storage, config, response, origin, wire, elapsed, result, issued,
                   args, location, env, second,
                   appVars, buttonVars>>

\* dispatchRequest hands the config to the transport.
Dispatch(c) ==
    /\ pc[c] = "dispatch"
    /\ chain[c] = "fulfilled"
    /\ wire' = [wire EXCEPT ![c] = Append(wire[c], config[c])]
    /\ elapsed' = [elapsed EXCEPT ![c] = 0]
    /\ pc' = [pc EXCEPT ![c] = "inflight"]
    /\ UNCHANGED <<defaults, storage, config, chain, response, error, origin, result, log, issued,
                   args, location, env, second,
                   appVars, buttonVars>>

\* dispatchRequest fails before anything is sent.
DispatchFail(c) ==
    /\ pc[c] = "dispatch"
    /\ chain[c] = "fulfilled"
    /\ chain' = [chain EXCEPT ![c] = "rejected"]
    /\ error' = [error EXCEPT ![c] = AdapterError]
    /\ origin' = [origin EXCEPT ![c] =
                     [Pending EXCEPT !.state = "rejected", !.error = AdapterError]]
    /\ pc' = [pc EXCEPT ![c] = "response"]
    /\ UNCHANGED <<defaults, storage, config, response, wire, elapsed, result, log, issued,
                   args, location, env, second,
                   appVars, buttonVars>>

\* Time passes for an in-flight request, up to its timeout.
Tick(c) ==
    /\ pc[c] = "inflight"
    /\ elapsed[c] < Get(config[c].timeout)
    /\ elapsed' = [elapsed EXCEPT ![c] =
                      IF elapsed[c] + TickMs < Get(config[c].timeout)
                      THEN elapsed[c] + TickMs ELSE Get(config[c].timeout)]
    /\ UNCHANGED <<defaults, storage, pc, config, chain, response, error, origin, wire,
                   result, log, issued,
                   args, location, env, second,
                   appVars, buttonVars>>

\* The server answers before the timeout: 2xx resolves the chain, others reject it.
TransportRespond(c, status) ==
    /\ pc[c] = "inflight"
    /\ elapsed[c] < Get(config[c].timeout)
    /\ LET resp == ServerResponse(status) IN
       IF ValidStatus(status)
       THEN /\ chain' = [chain EXCEPT ![c] = "fulfilled"]
            /\ response' = [response EXCEPT ![c] = resp]
            /\ error' = [error EXCEPT ![c] = NoError]
            /\ origin' = [origin EXCEPT ![c] =
                             [Pending EXCEPT !.state = "fulfilled", !.response = resp]]
       ELSE /\ chain' = [chain EXCEPT ![c] = "rejected"]
            /\ response' = [response EXCEPT ![c] = NoResponse]
            /\ error' = [error EXCEPT ![c] = StatusError(resp)]
            /\ origin' = [origin EXCEPT ![c] =
                             [Pending EXCEPT !.state = "rejected", !.error = StatusError(resp)]]
    /\ pc' = [pc EXCEPT ![c] = "response"]
    /\ UNCHANGED <<defaults, storage, config, wire, elapsed, result, log, issued,
                   args, location, env, second,
                   appVars, buttonVars>>

\* The connection fails: the request was sent and no response arrives.
TransportNetworkError(c) ==
    /\ pc[c] = "inflight"
    /\ elapsed[c] < Get(config[c].timeout)
    /\ chain' = [chain EXCEPT ![c] = "rejected"]
    /\ error' = [error EXCEPT ![c] = NetworkError]
    /\ origin' = [origin EXCEPT ![c] =
                     [Pending EXCEPT !.state = "rejected", !.error = NetworkError]]
    /\ pc' = [pc EXCEPT ![c] = "response"]
    /\ UNCHANGED <<defaults, storage, config, response, wire, elapsed, result, log, issued,
                   args, location, env, second,
                   appVars, buttonVars>>

\* Variant: the client has no timeout, so a silent server is waited for forever.
TransportTimeout_Disabled(c) ==
    /\ FALSE
    /\ UNCHANGED vars

\* The configured timeout expires with no response.
TransportTimeout(c) ==
    /\ pc[c] = "inflight"
    /\ elapsed[c] >= Get(config[c].timeout)
    /\ chain' = [chain EXCEPT ![c] = "rejected"]
    /\ error' = [error EXCEPT ![c] = TimeoutError(config[c])]
    /\ origin' = [origin EXCEPT ![c] =
                     [Pending EXCEPT !.state = "rejected", !.error = TimeoutError(config[c])]]
    /\ pc' = [pc EXCEPT ![c] = "response"]
    /\ UNCHANGED <<defaults, storage, config, response, wire, elapsed, result, log, issued,
                   args, location, env, second,
                   appVars, buttonVars>>

\* Variant: the fulfilled handler reports every response on the console.
ResponseStage_Logs(c) ==
    /\ pc[c] = "response"
    /\ chain[c] = "fulfilled"
    /\ result' = [result EXCEPT ![c] =
                     [state |-> "fulfilled", response |-> ResponseFulfilled(response[c]),
                      error |-> NoError]]
    /\ log' = [log EXCEPT ![c] =
                  Append(log[c], <<"Response:", NumberToString(response[c].status)>>)]
    /\ pc' = [pc EXCEPT ![c] = "settled"]
    /\ UNCHANGED <<defaults, storage, config, chain, response, error, origin, wire,
                   elapsed, issued, args, location, env, second, appVars, buttonVars>>

\* The response interceptor's fulfilled handler settles the caller's promise.
ResponseStage(c) ==
    /\ pc[c] = "response"
    /\ chain[c] = "fulfilled"
    /\ result' = [result EXCEPT ![c] =
                     [state |-> "fulfilled", response |-> ResponseFulfilled(response[c]),
                      error |-> NoError]]
    /\ pc' = [pc EXCEPT ![c] = "settled"]
    /\ UNCHANGED <<defaults, storage, config, chain, response, error, origin, wire,
                   elapsed, log, issued,
                   args, location, env, second,
                   appVars, buttonVars>>

\* The response interceptor's rejected handler logs, then its return value settles
\* the caller's promise.  (A handler that returned a re-issued request instead
\* would send the config to the transport again.)
ResponseErrorStage(c) ==
    /\ pc[c] = "response"
    /\ chain[c] = "rejected"
    /\ LET out == ResponseRejected(error[c]) IN
       /\ log' = [log EXCEPT ![c] = log[c] \o out.logs]
       /\ IF out.state = "retry"
          THEN /\ pc' = [pc EXCEPT ![c] = "dispatch"]
               /\ chain' = [chain EXCEPT ![c] = "fulfilled"]
               /\ UNCHANGED result
          ELSE /\ pc' = [pc EXCEPT ![c] = "settled"]
               /\ result' = [result EXCEPT ![c] =
                                [state |-> out.state, response |-> NoResponse,
                                 error |-> IF out.state = "rejected" THEN out.error ELSE NoError]]
               /\ UNCHANGED chain
       \* the redirect to the login page is commented out in the handler
       /\ location' = IF IsSome(out.redirect) THEN Get(out.redirect) ELSE location
    /\ UNCHANGED <<defaults, storage, config, response, error, origin, wire, elapsed, issued,
                   args, env, second,
                   appVars, buttonVars>>

\* The authentication flow elsewhere in the application writes or removes the token.
AuthFlow(token) ==
    /\ storage.accessible
    /\ token # storage.authToken
    /\ storage' = [storage EXCEPT !.authToken = token]
    /\ UNCHANGED <<defaults, pc, config, chain, response, error, origin, wire, elapsed,
                   result, log, issued,
                   args, location, env, second,
                   appVars, buttonVars>>

Next ==
    \/ \E c \in Callers, req \in Requests, failed \in BOOLEAN : Call(c, req, failed)
    \/ \E c \in Callers : RequestStage(c)
    \/ \E c \in Callers : RequestErrorStage(c)
    \/ \E c \in Callers : Dispatch(c)
    \/ \E c \in Callers : DispatchFail(c)
    \/ \E c \in Callers : Tick(c)
    \/ \E c \in Callers, s \in Statuses : TransportRespond(c, s)
    \/ \E c \in Callers : TransportNetworkError(c)
    \/ \E c \in Callers : TransportTimeout(c)
    \/ \E c \in Callers : ResponseStage(c)
    \/ \E c \in Callers : ResponseErrorStage(c)
    \/ \E t \in Tokens : AuthFlow(t)

Spec == Init /\ [][Next]_vars

\* The module's axios.create call evaluated once more, with the same environment,
\* while no call is in progress on the first instance.
Construct ==
    /\ second = None
    /\ \A c \in Callers : pc[c] \in {"idle", "settled"}
    /\ second' = Some(Create(env))
    /\ UNCHANGED <<defaults, storage, pc, config, chain, response, error, origin, wire,
                   elapsed, result, log, issued, args, location, env,
                   appVars, buttonVars>>

\* Calls on the first instance, up to the moment the second one is built.
NextCreate == (second = None /\ Next) \/ Construct

\* The client together with a second construction of it.
SpecCreate == Init /\ [][NextCreate]_vars

----------------------------------------------------------------------------
(* The application shell: the entry point and the store *)

\* store.dispatch(action): the root reducer computes the next state.
StoreDispatch(action) ==
    /\ rootState' = rootReducer(rootState, action)
    /\ dispatched' = Append(dispatched, action)
    /\ UNCHANGED <<document, startup, roots, rendered, thrown, clientVars, buttonVars>>

\* dispatch(increment())
Increment ==
    /\ Len(dispatched) < MaxDispatches
    /\ StoreDispatch(increment)

\* dispatch(decrement())
Decrement ==
    /\ Len(dispatched) < MaxDispatches
    /\ StoreDispatch(decrement)

\* dispatch(incrementByAmount(a))
IncrementByAmount(a) ==
    /\ Len(dispatched) < MaxDispatches
    /\ StoreDispatch(incrementByAmount(a))

\* Variant: the root is created and rendered into whatever the lookup returned.
Main_Unchecked ==
    /\ startup = "pending"
    /\ LET rootElement == getElementById(document, "root") IN
       /\ roots' = Append(roots, rootElement)
       /\ rendered' = Append(rendered, AppTree)
       /\ startup' = "rendered"
       /\ UNCHANGED thrown
    /\ UNCHANGED <<rootState, dispatched, document, clientVars, buttonVars>>

\* main.tsx is evaluated: look the mount point up, throw without it, else
\* create the React root on it and render the application.
Main ==
    /\ startup = "pending"
    /\ LET rootElement == getElementById(document, "root") IN
       IF ~IsSome(rootElement)
       THEN /\ thrown' = Some(RootMissing)
            /\ startup' = "threw"
            /\ UNCHANGED <<roots, rendered>>
       ELSE /\ roots' = Append(roots, rootElement)
            /\ rendered' = Append(rendered, AppTree)
            /\ startup' = "rendered"
            /\ UNCHANGED thrown
    /\ UNCHANGED <<rootState, dispatched, document, clientVars, buttonVars>>

\* The application with any index.html, before and after start-up.
InitApp ==
    /\ InitClient
    /\ InitStore
    /\ InitMain
    /\ document \in Documents
    /\ InitButton

NextApp ==
    \/ Main
    \/ Increment
    \/ Decrement
    \/ \E a \in Amounts : IncrementByAmount(a)

SpecApp == InitApp /\ [][NextApp]_vars

----------------------------------------------------------------------------
(* Rendering the Button *)

\* React calls the component of src/components/Button with props p.
Render(p) ==
    /\ props' = p
    /\ element' = Some(Button(p))
    /\ UNCHANGED <<clientVars, appVars>>

\* React calls the other copy of the component with props p.
RenderCommon(p) ==
    /\ props' = p
    /\ element' = Some(CommonButton(p))
    /\ UNCHANGED <<clientVars, appVars>>

NextButton ==
    \/ \E p \in AllProps : Render(p)
    \/ \E p \in AllProps : RenderCommon(p)

SpecButton == Init /\ [][NextButton]_vars

----------------------------------------------------------------------------
(* Properties *)

Last(seq) == seq[Len(seq)]

Authorization(cfg) == Get(cfg.headers)["Authorization"]

\* A step in which the request interceptor's fulfilled handler runs for c.
RequestStep(c) == pc[c] = "request" /\ chain[c] = "fulfilled" /\ pc'[c] # "request"

\* A step in which the response interceptor's rejected handler runs for c.
ResponseErrorStep(c) == pc[c] = "response" /\ chain[c] = "rejected" /\ pc'[c] # "response"

Rejected(err) == [state |-> "rejected", response |-> NoResponse, error |-> err]

\* C1: every failed call settles rejected with the very error object that was
\* raised: never a success value, a substitute or a different error, and the
\* call does settle once the response-error handler has run.
C1_FailureResignaled ==
    /\ \A c \in Callers :
          (pc[c] = "settled" /\ origin[c].state = "rejected")
              => result[c] = Rejected(origin[c].error)
    /\ \A c \in Callers : (pc[c] = "settled") => result[c].state # "pending"

\* Both callers have had a failure re-signaled, one the server answered and one
\* that never left the client.
C1_Witness ==
    /\ pc["A"] = "settled" /\ result["A"].state = "rejected"
    /\ result["A"].error.response.present
    /\ pc["B"] = "settled" /\ result["B"].state = "rejected"
    /\ ~result["B"].error.response.present /\ ~IsSome(result["B"].error.request)

\* C2: when the request interceptor runs while a non-empty token is stored, the
\* config it returns has Authorization = "Bearer " followed by that token,
\* whatever the method, url, body and caller headers; and that config is the
\* request handed to the transport.
C2_BearerInjected ==
    [][\A c \in Callers :
          /\ (RequestStep(c) /\ storage.accessible /\ IsSome(storage.authToken)
                  /\ Get(storage.authToken) # "")
                => Authorization(config'[c]) = Some("Bearer " \o Get(storage.authToken))
          /\ (pc[c] = "dispatch" /\ pc'[c] = "inflight")
                => (wire'[c] = <<config[c]>> /\ config'[c] = config[c])
      ]_vars

\* A POST /orders is in flight with the stored token abc123 as its credential,
\* and so is a call whose caller had supplied its own Authorization header.
C2_Witness ==
    /\ pc["A"] = "inflight" /\ wire["A"][1].method = "POST"
    /\ wire["A"][1].data = Some("{id:1}")
    /\ Authorization(wire["A"][1]) = Some("Bearer abc123")
    /\ pc["B"] = "inflight" /\ wire["B"][1].baseURL = Some("https://other.example/api")
    /\ Authorization(wire["B"][1]) = Some("Bearer abc123")
    /\ storage.authToken = Some("abc123")

\* C3 (as stated): when the request interceptor runs while no token is stored,
\* the config it returns carries no Authorization header.
C3_NoTokenNoHeader ==
    [][\A c \in Callers :
          (RequestStep(c) /\ storage.accessible /\ storage.authToken = None)
              => Authorization(config'[c]) = None
      ]_vars

\* C3 (amended): when the request interceptor runs while no token is stored it
\* adds no Authorization header: the config passes through with the header the
\* caller supplied, if any, and without one otherwise; that config is what the
\* transport is handed.
C3_NoTokenNoInjection ==
    [][\A c \in Callers :
          /\ (RequestStep(c) /\ storage.accessible /\ storage.authToken = None)
                => /\ Authorization(config'[c]) = Authorization(config[c])
                   /\ Authorization(config'[c]) \in {None, Some("Basic caller")}
                   /\ pc'[c] = "dispatch"
          /\ (pc[c] = "dispatch" /\ pc'[c] = "inflight")
                => Authorization(wire'[c][1]) = Authorization(config[c])
      ]_vars

\* With no token stored, GET /health is in flight without an Authorization
\* header and with Content-Type application/json, while a call whose caller
\* supplied a credential is in flight with that credential.
C3_Witness ==
    /\ storage.accessible /\ storage.authToken = None
    /\ pc["A"] = "inflight" /\ wire["A"][1].method = "GET" /\ wire["A"][1].url = "/health"
    /\ Authorization(wire["A"][1]) = None
    /\ Get(wire["A"][1].headers)["Content-Type"] = Some("application/json")
    /\ pc["B"] = "inflight" /\ Authorization(wire["B"][1]) = Some("Basic caller")

\* C4: for every successful transport outcome the caller receives exactly the
\* response object the transport produced.
C4_SuccessPassedThrough ==
    \A c \in Callers :
        (pc[c] = "settled" /\ origin[c].state = "fulfilled")
            => result[c] = [state |-> "fulfilled", response |-> origin[c].response,
                            error |-> NoError]

C4_Witness ==
    \E c \in Callers :
        /\ pc[c] = "settled" /\ result[c].state = "fulfilled"
        /\ result[c].response.present /\ result[c].response.status = 200

StartsWith(str, prefix) ==
    Len(str) >= Len(prefix) /\ SubSeq(str, 1, Len(prefix)) = prefix

\* The kinds a diagnostic belongs to, read off its text.
DiagnosticKinds(entry) ==
    {k \in {"server", "network", "setup"} :
        \/ k = "server" /\ \/ entry[1] = "Unauthorized! Redirecting to login..."
                           \/ entry[1] = "Server error! Please try again later."
                           \/ StartsWith(entry[1], "Error ")
        \/ k = "network" /\ StartsWith(entry[1], "No response received")
        \/ k = "setup" /\ entry[1] = "Axios setup error:"}

\* C5: the response-error handler writes exactly one diagnostic per failure, of
\* exactly one kind: server when the error has a response (also when it has a
\* request too), network when it has no response but a request, setup when it
\* has neither.
C5_ExactlyOneKind ==
    [][\A c \in Callers :
          ResponseErrorStep(c) =>
              /\ Len(log'[c]) = Len(log[c]) + 1
              /\ DiagnosticKinds(Last(log'[c])) =
                    { IF error[c].response.present THEN "server"
                      ELSE IF error[c].request # None THEN "network"
                      ELSE "setup" }
      ]_vars

\* Failures of all three kinds have been classified, the server one carrying
\* both a response and a request.
C5_Witness ==
    /\ pc["A"] = "settled" /\ result["A"].error.response.present
    /\ IsSome(result["A"].error.request)
    /\ DiagnosticKinds(Last(log["A"])) = {"server"}
    /\ pc["B"] = "settled" /\ result["B"].state = "rejected"
    /\ DiagnosticKinds(Last(log["B"])) = {"setup"}

\* C6: a failure the server answered with status s logs exactly one
\* diagnostic: the unauthorized message iff s = 401, the server-error message
\* iff s = 500, otherwise the generic message naming s with the response data;
\* and the original error is re-signaled.
C6_StatusDiagnostic ==
    \A c \in Callers :
        (pc[c] = "settled" /\ origin[c].error.response.present) =>
            LET s == origin[c].error.response.status IN
            /\ log[c] = << IF s = 401 THEN <<"Unauthorized! Redirecting to login...">>
                           ELSE IF s = 500 THEN <<"Server error! Please try again later.">>
                           ELSE <<"Error " \o NumberToString(s) \o ":",
                                  origin[c].error.response.data>> >>
            /\ result[c] = Rejected(origin[c].error)

\* One caller has been answered 401 and the other 404, each with its diagnostic.
C6_Witness ==
    /\ pc["A"] = "settled" /\ result["A"].error.response.status = 401
    /\ log["A"] = << <<"Unauthorized! Redirecting to login...">> >>
    /\ pc["B"] = "settled" /\ result["B"].error.response.status = 404
    /\ log["B"] = << <<"Error 404:", "body 404">> >>

\* C7: a failure with no response, a timeout included, logs the network
\* diagnostic and nothing else, and the original error is re-signaled.
C7_NoResponseDiagnostic ==
    \A c \in Callers :
        (pc[c] = "settled" /\ origin[c].state = "rejected"
            /\ ~origin[c].error.response.present /\ IsSome(origin[c].error.request)) =>
                /\ log[c] = << <<"No response received - check your network connection.">> >>
                /\ result[c] = Rejected(origin[c].error)

\* A call has run into its configured 10000 ms timeout and has been settled.
C7_Witness ==
    \E c \in Callers :
        /\ pc[c] = "settled" /\ elapsed[c] = 10000
        /\ result[c].error.message = "timeout of 10000ms exceeded"
        /\ Len(wire[c]) = 1

\* C8 (as stated): whatever the state of storage, the request interceptor
\* returns a config and the call proceeds to transmission.
C8_PreSendNeverFails ==
    [][\A c \in Callers :
          RequestStep(c) => (pc'[c] = "dispatch" /\ chain'[c] = "fulfilled")
      ]_vars

C10_AtMostOneTransmission ==
    \A c \in Callers :
        /\ Len(wire[c]) <= 1
        /\ (pc[c] = "settled"
               /\ (result[c].state = "fulfilled" \/ IsSome(result[c].error.request)))
             => Len(wire[c]) = 1

\* One call failed after its single transmission, another without any.
C10_Witness ==
    /\ pc["A"] = "settled" /\ result["A"].state = "rejected" /\ Len(wire["A"]) = 1
    /\ pc["B"] = "settled" /\ result["B"].state = "rejected" /\ Len(wire["B"]) = 0

\* C11: the token is read when a call's request interceptor runs, not earlier:
\* the header the call gets is "Bearer " and the token stored at that moment,
\* or the call's own header when none (or an empty one) is stored then; once
\* past the interceptor a call keeps its header whatever is written to
\* storage afterwards, and it is sent with that header.
C11_TokenReadPerCall ==
    [][\A c \in Callers :
          /\ (RequestStep(c) /\ storage.accessible) =>
                Authorization(config'[c]) =
                    IF storage.authToken \in {None, Some("")}
                    THEN Authorization(config[c])
                    ELSE Some("Bearer " \o Get(storage.authToken))
          /\ (pc[c] \in {"dispatch", "inflight", "response", "settled"}
                 /\ pc'[c] # "request") =>
                /\ Authorization(config'[c]) = Authorization(config[c])
                /\ wire'[c] \in {wire[c], <<config[c]>>}
      ]_vars

\* Two calls are in flight with different tokens, each the one stored when its
\* interceptor ran, and the token has since been removed.
C11_Witness ==
    /\ pc["A"] = "inflight" /\ Authorization(wire["A"][1]) = Some("Bearer abc123")
    /\ pc["B"] = "inflight" /\ Authorization(wire["B"][1]) = Some("Bearer xyz789")
    /\ storage.accessible /\ storage.authToken = None

\* Everything that belongs to caller c's call.
CallState(c) ==
    <<pc[c], config[c], chain[c], response[c], error[c], origin[c], wire[c],
      elapsed[c], result[c], log[c], args[c]>>

\* C12: calls do not interfere.  A step of one call's chain changes nothing of
\* another call; no step of a call writes the state calls share (the stored
\* token, the instance defaults); and a call starts from the headers it would
\* have on a fresh client, its own over Content-Type application/json,
\* whatever calls ran or are running beside it.
C12_CallsIndependent ==
    [][/\ \A c, d \in Callers :
             (c # d /\ CallState(c)' # CallState(c)) => CallState(d)' = CallState(d)
       /\ (pc' # pc) => (storage' = storage /\ defaults' = defaults)
       /\ \A c \in Callers :
             (pc[c] # "request" /\ pc'[c] = "request") =>
                \A h \in HeaderNames :
                    Get(config'[c].headers)[h] =
                        IF IsSome(args'[c].headers) /\ IsSome(Get(args'[c].headers)[h])
                        THEN Get(args'[c].headers)[h]
                        ELSE IF h = "Content-Type" THEN Some("application/json") ELSE None
      ]_vars

\* Both calls are under way at once: one in flight with a bearer credential,
\* the other about to have its 401 handled, sent without any credential.
C12_Witness ==
    /\ pc["A"] = "inflight" /\ Authorization(wire["A"][1]) = Some("Bearer abc123")
    /\ pc["B"] = "response" /\ chain["B"] = "rejected"
    /\ error["B"].response.status = 401
    /\ Authorization(wire["B"][1]) = None

\* C13: the request interceptor changes at most the Authorization header of
\* the config: method, url, body, query, timeout, base address and every other
\* header stay as they were; with no token (or an empty one) stored the config
\* passes through unchanged; and nothing changes the config after the
\* interceptor has run.
C13_OnlyAuthorizationChanged ==
    [][\A c \in Callers :
          /\ RequestStep(c) =>
                /\ config'[c] =
                      [config[c] EXCEPT !.headers =
                          Some([Get(config[c].headers) EXCEPT
                                   !["Authorization"] = Authorization(config'[c])])]
                /\ (~storage.accessible \/ storage.authToken \in {None, Some("")})
                      => config'[c] = config[c]
          /\ (pc[c] \in {"dispatch", "inflight", "response", "settled"}
                 /\ pc'[c] # "request") => config'[c] = config[c]
      ]_vars

\* A POST /orders has received its credential and still has the body, the
\* Content-Type and the X-Request-Id its caller passed; a GET with a query has
\* passed the interceptor while no token was stored, exactly as merged.
C13_Witness ==
    /\ pc["A"] = "dispatch" /\ config["A"].method = "POST" /\ config["A"].url = "/orders"
    /\ config["A"].data = Some("{id:1}")
    /\ Get(config["A"].headers) =
          [NoHeaders EXCEPT !["Content-Type"] = Some("text/plain"),
                            !["X-Request-Id"] = Some("r1"),
                            !["Authorization"] = Some("Bearer abc123")]
    /\ pc["B"] = "dispatch" /\ config["B"].params = Some("page=1")
    /\ Authorization(config["B"]) = Some("Basic caller")

\* C14: every request handed to the transport has the base address the client
\* was constructed with unless its call passed one, the constructed timeout of
\* 10000 ms unless its call passed one, and Content-Type application/json
\* unless its call passed a Content-Type, which it then carries; the same
\* holds of the config before and after the request interceptor.
C14_DefaultsApplied ==
    \A c \in Callers :
        (pc[c] # "idle") =>
            \A w \in {config[c]} \cup {wire[c][i] : i \in 1..Len(wire[c])} :
                /\ w.baseURL = IF args[c].baseURL # None THEN args[c].baseURL ELSE env
                /\ w.timeout = IF args[c].timeout # None THEN args[c].timeout ELSE Some(10000)
                /\ w.headers # None
                /\ Get(w.headers)["Content-Type"] =
                      IF args[c].headers # None
                           /\ Get(args[c].headers)["Content-Type"] # None
                      THEN Get(args[c].headers)["Content-Type"]
                      ELSE Some("application/json")

\* With base address http://localhost:3000/api and no token, GET /health is in
\* flight with the defaults; beside it a call that overrides base address and
\* timeout, and passes headers but no Content-Type, is in flight with a token.
C14_Witness ==
    /\ env = Some("http://localhost:3000/api")
    /\ pc["A"] = "inflight" /\ wire["A"][1].url = "/health"
    /\ wire["A"][1].baseURL = Some("http://localhost:3000/api")
    /\ wire["A"][1].timeout = Some(10000)
    /\ Get(wire["A"][1].headers) = [NoHeaders EXCEPT !["Content-Type"] = Some("application/json")]
    /\ pc["B"] = "inflight" /\ wire["B"][1].baseURL = Some("https://other.example/api")
    /\ wire["B"][1].timeout = Some(5000)
    /\ Get(wire["B"][1].headers) =
          [NoHeaders EXCEPT !["Content-Type"] = Some("application/json"),
                            !["Authorization"] = Some("Bearer xyz789")]

\* C15 (as stated): every request handed to the transport runs with the
\* construction-time timeout of 10000 ms, whatever options its call passed.
C15_TimeoutNotOverridable ==
    \A c \in Callers :
        \A i \in 1..Len(wire[c]) : wire[c][i].timeout = Some(10000)

\* C15 (amended): the instance's timeout is fixed at 10000 ms at construction
\* and no call changes it; a request whose call passes no timeout runs with
\* 10000 ms, a request whose call passes one runs with that one, and a timeout
\* failure arises exactly when the request's own duration has elapsed.
C15_TimeoutFixedUnlessOverridden ==
    /\ defaults.timeout = 10000
    /\ \A c \in Callers :
          /\ \A i \in 1..Len(wire[c]) :
                wire[c][i].timeout =
                    IF args[c].timeout = None THEN Some(10000) ELSE args[c].timeout
          /\ (origin[c].state = "rejected"
                 /\ StartsWith(origin[c].error.message, "timeout of")) =>
                /\ elapsed[c] = Get(wire[c][1].timeout)
                /\ origin[c].error.message =
                      "timeout of " \o NumberToString(elapsed[c]) \o "ms exceeded"

\* One call has timed out after the constructed 10000 ms, another after the
\* 5000 ms its caller passed.
C15_Witness ==
    /\ pc["A"] = "settled" /\ args["A"].timeout = None /\ elapsed["A"] = 10000
    /\ result["A"].error.message = "timeout of 10000ms exceeded"
    /\ pc["B"] = "settled" /\ args["B"].timeout = Some(5000) /\ elapsed["B"] = 5000
    /\ result["B"].error.message = "timeout of 5000ms exceeded"

\* C16: after any sequence of calls the instance defaults are what
\* axios.create was given: the environment's base address, the single header
\* Content-Type application/json and the timeout 10000; no Authorization
\* header of any call is among them.
C16_DefaultsImmutable ==
    /\ defaults.baseURL = env
    /\ defaults.timeout = 10000
    /\ defaults.headers =
          [h \in HeaderNames |-> IF h = "Content-Type" THEN Some("application/json") ELSE None]

\* Two calls have completed, one answered successfully after being sent with
\* a bearer credential and one failed, and a token is still stored.
C16_Witness ==
    /\ issued = 2
    /\ pc["A"] = "settled" /\ result["A"].state = "fulfilled"
    /\ Authorization(wire["A"][1]) = Some("Bearer abc123")
    /\ args["A"].headers = None
    /\ pc["B"] = "settled" /\ result["B"].state = "rejected"
    /\ storage.authToken = Some("abc123")
    /\ defaults.headers["Authorization"] = None

\* C17: no step of a call writes external state: every stage of the chain,
\* on success and on each kind of failure, status 401 included, leaves the
\* stored token and window.location as they were; only the authentication
\* flow changes the token and nothing changes the location.
C17_NoExternalWrites ==
    [][/\ (pc' # pc) => (storage' = storage /\ location' = location)
       /\ \A c \in Callers :
             (ResponseErrorStep(c) /\ error[c].response.status = 401) =>
                (location' = "/" /\ storage' = storage)
      ]_vars

\* A 401 has been handled and re-signaled while a token is stored: the token
\* is still there and the page has not moved.
C17_Witness ==
    \E c \in Callers :
        /\ pc[c] = "settled" /\ result[c].error.response.status = 401
        /\ Authorization(wire[c][1]) = Some("Bearer abc123")
        /\ storage.authToken = Some("abc123")
        /\ location = "/"

NextFixedToken ==
    \/ \E c \in Callers, req \in Requests, failed \in BOOLEAN : Call(c, req, failed)
    \/ \E c \in Callers : RequestStage(c)
    \/ \E c \in Callers : RequestErrorStage(c)
    \/ \E c \in Callers : Dispatch(c)
    \/ \E c \in Callers : DispatchFail(c)
    \/ \E c \in Callers : Tick(c)
    \/ \E c \in Callers, st \in Statuses : TransportRespond(c, st)
    \/ \E c \in Callers : TransportNetworkError(c)
    \/ \E c \in Callers : TransportTimeout(c)
    \/ \E c \in Callers : ResponseStage(c)
    \/ \E c \in Callers : ResponseErrorStage(c)

SpecFixedToken == Init /\ [][NextFixedToken]_vars

\* The event loop runs every queued promise reaction of c's chain, and the
\* clock and timeout timer of c's request keep running.  Nothing is assumed
\* of the server, of the network or of any other caller.
Fair(c) ==
    /\ WF_vars(RequestStage(c))
    /\ WF_vars(RequestErrorStage(c))
    /\ WF_vars(Dispatch(c))
    /\ WF_vars(Tick(c))
    /\ WF_vars(TransportTimeout(c))
    /\ WF_vars(ResponseStage(c))
    /\ WF_vars(ResponseErrorStage(c))

\* A settled call has exactly one outcome: a response or an error.
OneOutcome(c) ==
    \/ /\ result[c].state = "fulfilled"
       /\ result[c].response.present /\ ~result[c].error.present
    \/ /\ result[c].state = "rejected"
       /\ result[c].error.present /\ ~result[c].response.present

\* C19: every call that enters the chain eventually settles, whenever the
\* event loop keeps running that call's own reactions and its timeout timer
\* (no step of any other call is assumed), and a settled call carries exactly
\* one outcome: a response and no error, or an error and no response.
C19_EveryCallCompletes ==
    /\ [](\A c \in Callers : (pc[c] = "settled") => OneOutcome(c))
    /\ \A c \in Callers : Fair(c) => ((pc[c] = "request") ~> (pc[c] = "settled"))

\* One call has completed by its timeout while another call, issued before the
\* first one settled, is still waiting on the wire for its response.
C19_Witness ==
    \E c, d \in Callers :
        /\ c # d
        /\ pc[c] = "settled" /\ OneOutcome(c)
        /\ result[c].state = "rejected"
        /\ result[c].error = TimeoutError(config[c])
        /\ pc[d] = "inflight" /\ Len(wire[d]) = 1

----------------------------------------------------------------------------
(* The store's counter *)

RECURSIVE CountOf(_, _)
\* How many actions of the given type a sequence of actions holds.
CountOf(actions, type) ==
    IF actions = <<>> THEN 0
    ELSE (IF Head(actions).type = type THEN 1 ELSE 0) + CountOf(Tail(actions), type)

RECURSIVE SumOfAmounts(_)
\* The sum of the payloads of the incrementByAmount actions of a sequence.
SumOfAmounts(actions) ==
    IF actions = <<>> THEN 0
    ELSE (IF Head(actions).type = "counter/incrementByAmount"
          THEN Get(Head(actions).payload) ELSE 0) + SumOfAmounts(Tail(actions))

\* C21: the counter starts at 0 and after any sequence of dispatched actions
\* its value, as selectCount returns it, is the number of increments minus the
\* number of decrements plus the sum of the amounts of incrementByAmount.
C21_CounterValue ==
    /\ (dispatched = <<>>) => (rootState.counter.value = 0)
    /\ selectCount(rootState) =
          CountOf(dispatched, "counter/increment")
          - CountOf(dispatched, "counter/decrement")
          + SumOfAmounts(dispatched)

\* All three kinds of action have been dispatched, one with a negative amount.
C21_Witness ==
    /\ CountOf(dispatched, "counter/increment") = 1
    /\ CountOf(dispatched, "counter/decrement") = 1
    /\ dispatched[Len(dispatched)] = incrementByAmount(-2)
    /\ selectCount(rootState) = -2

----------------------------------------------------------------------------
(* The Button *)

\* The class tokens of the rendered button element.
ClassList(el) == IF IsSome(el.attributes.className) THEN Get(el.attributes.className) ELSE <<>>

HasClass(el, class) == \E i \in 1..Len(ClassList(el)) : ClassList(el)[i] = class

----------------------------------------------------------------------------
(* The client and the constants module *)

\* C23 (as stated): the shared client is built with the timeout and the base
\* address of the constants module, API_TIMEOUT and API_BASE_URL, in every
\* environment, the one without VITE_API_BASE_URL included.
C23_ClientUsesConstants ==
    /\ defaults.timeout = API_TIMEOUT
    /\ defaults.baseURL = Some(API_BASE_URL)

----------------------------------------------------------------------------
(* Start-up *)

\* C24: start-up renders only onto an existing mount point.  Without an
\* element of id 'root' it throws, creates no React root and renders nothing;
\* with one it creates one root on that element and renders the application
\* once, inside the Provider of the store, and throws nothing.
C24_RendersOnlyOnRoot ==
    /\ (startup = "pending") => (roots = <<>> /\ rendered = <<>> /\ thrown = None)
    /\ (startup # "pending") =>
          IF "root" \in document
          THEN /\ startup = "rendered"
               /\ roots = <<Some("root")>>
               /\ rendered = <<AppTree>>
               /\ rendered[1].provider = "store" /\ rendered[1].child = "App"
               /\ thrown = None
          ELSE /\ startup = "threw"
               /\ thrown = Some(RootMissing)
               /\ roots = <<>>
               /\ rendered = <<>>

\* Start-up has thrown in a page whose only element is not the mount point.
C24_Witness ==
    /\ document = {"app"}
    /\ startup = "threw"
    /\ IsSome(thrown)
    /\ roots = <<>> /\ rendered = <<>>

----------------------------------------------------------------------------
(* Diagnostics *)

----------------------------------------------------------------------------
(* The empty token *)

\* C26: an empty stored token is treated as no token: the request interceptor
\* leaves the Authorization header as the caller's options set it and the call
\* goes on to dispatch, and no config of a call, on the wire or before it,
\* carries the header 'Bearer ' with nothing after it.
C26_EmptyTokenIsAbsent ==
    [][\A c \in Callers :
          /\ (RequestStep(c) /\ storage.accessible /\ storage.authToken = Some(""))
                => /\ Authorization(config'[c]) = Authorization(config[c])
                   /\ pc'[c] = "dispatch"
          /\ (pc'[c] # "idle") => Authorization(config'[c]) # Some(Bearer(""))
          /\ \A i \in 1..Len(wire'[c]) : Authorization(wire'[c][i]) # Some("Bearer ")
      ]_vars

\* With the empty string stored, a call is in flight without an Authorization
\* header.
C26_Witness ==
    /\ storage.accessible /\ storage.authToken = Some("")
    /\ \E c \in Callers :
           /\ pc[c] = "inflight" /\ elapsed[c] = 0
           /\ Len(wire[c]) = 1
           /\ Authorization(wire[c][1]) = None

----------------------------------------------------------------------------
(* Diagnostics and the token *)

\* Whether the text sub occurs in the text str.
Contains(str, sub) ==
    \E i \in 1..(Len(str) - Len(sub) + 1) : SubSeq(str, i, i + Len(sub) - 1) = sub

\* The diagnostic a failure is reported with, from the failure alone.
FailureDiagnostic(err) ==
    IF err.response.present
    THEN CASE err.response.status = 401 -> <<"Unauthorized! Redirecting to login...">>
           [] err.response.status = 500 -> <<"Server error! Please try again later.">>
           [] OTHER -> <<"Error " \o NumberToString(err.response.status) \o ":",
                         err.response.data>>
    ELSE IF IsSome(err.request)
    THEN <<"No response received - check your network connection.">>
    ELSE <<"Axios setup error:", err.message>>

\* The log of c's call as a function of what is observable without the token:
\* how far the call has come and the failure as it first arose, before sending
\* or from the transport.
TokenFreeLog(c) ==
    (IF origin[c].error = PreSendError /\ pc[c] \in {"response", "settled"}
     THEN << <<"Request error:", origin[c].error.message>> >> ELSE << >>)
    \o
    (IF origin[c].state = "rejected" /\ pc[c] = "settled"
     THEN << FailureDiagnostic(origin[c].error) >> ELSE << >>)

\* C27: the log of every call is determined by the call's progress and by its
\* failure as the transport or the pre-send stage produced it, with no
\* reference to the stored token, so runs that differ in the token alone log
\* the same; and no text that is logged contains a token the store can hold.
C27_LogIndependentOfToken ==
    \A c \in Callers :
        /\ log[c] = TokenFreeLog(c)
        /\ \A i \in 1..Len(log[c]) : \A j \in 1..Len(log[c][i]) :
              \A t \in Tokens : Truthy(t) => ~Contains(log[c][i][j], Get(t))

\* A call that was sent with the bearer token has failed with status 404, and
\* its diagnostic holds the status and the server's body only.
C27_Witness ==
    \E c \in Callers :
        /\ pc[c] = "settled" /\ result[c].state = "rejected"
        /\ Len(wire[c]) = 1
        /\ Authorization(wire[c][1]) = Some("Bearer abc123")
        /\ log[c] = << <<"Error 404:", "body 404">> >>

----------------------------------------------------------------------------
(* Silence of successful calls *)

\* C28: the client writes to the console on error paths only.  A step adds to
\* the log of a call only while that call's chain is rejected, the stages a
\* fulfilled chain passes leave the log alone, and a call that has succeeded,
\* with a token stored or without, has logged nothing.
C28_SuccessIsSilent ==
    [][\A c \in Callers :
          /\ (log'[c] # log[c] /\ log'[c] # <<>>) => chain[c] = "rejected"
          /\ (chain[c] = "fulfilled" /\ pc[c] \in {"request", "dispatch", "response"}
                /\ chain'[c] = "fulfilled") => log'[c] = log[c]
          /\ (pc'[c] = "settled" /\ result'[c].state = "fulfilled") => log'[c] = <<>>
      ]_vars

\* Both calls of the run have succeeded, one sent with a bearer token and one
\* sent while no token was stored, and nothing has been logged.
C28_Witness ==
    \E c, d \in Callers :
        /\ c # d
        /\ pc[c] = "settled" /\ result[c].state = "fulfilled"
        /\ pc[d] = "settled" /\ result[d].state = "fulfilled"
        /\ Authorization(wire[c][1]) = Some("Bearer xyz789")
        /\ Authorization(wire[d][1]) = None
        /\ log[c] = <<>> /\ log[d] = <<>>

----------------------------------------------------------------------------
(* The Button's pass-through props *)

\* C29 (as stated): whatever pass-through props a Button is rendered with, a
\* className of the caller's included, the button element carries the class
\* its variant selects.
C29_VariantClassPresent ==
    IsSome(element) =>
        HasClass(Get(element),
                 IF props.variant = Some("secondary") THEN "buttonSecondary" ELSE "button")

====
